---------------------------- MODULE Spec2Model ----------------------------
(***************************************************************************)
(* The economic ledger of src/bot.py: the user table (users_db), the       *)
(* transaction log (transactions_db), the payment batches (payments_db),   *)
(* the update handlers (start, toggle_trading, roll_dice, check_batch) and *)
(* the periodic jobs (calculate_daily_profits, reset_daily_limits,         *)
(* send_automatic_messages, process_payment_batches).                      *)
(*                                                                         *)
(* Concurrency.  Everything runs on one asyncio event loop.  The           *)
(* Application is built with the default concurrent_updates = False, so    *)
(* update handlers run one after the other; each job of the job queue runs *)
(* as a task of its own, at most one instance per job.  Control changes    *)
(* hands only at an await that suspends, so the code between two           *)
(* suspending awaits is one atomic action here.                            *)
(*                                                                         *)
(* src/bot.py line 228 lacks its closing parenthesis; it is read as        *)
(* 5000 + (referrals * 5000), the expression line 593 spells out.          *)
(*                                                                         *)
(* Two operations of the ledger's interface have no code in src/bot.py     *)
(* (the web application performs them): recording an ad watch and          *)
(* confirming a verification.  They are modelled from spec.md sections 4.3 *)
(* and 4.4.                                                                *)
(***************************************************************************)
EXTENDS Integers, Sequences, FiniteSets, TLC

VARIABLES
    users_db,          \* user id -> user record, for the ids created so far
    order,             \* the insertion order of users_db (a dict iterates in it)
    transactions_db,   \* the transaction log
    payments_db,       \* the payment batches
    clock,             \* now() in Africa/Lagos: the day, and the hour as a
                       \* place (slot) in the hours observed that day
    handler,           \* the update handler suspended in an await, if any
    accrual,           \* calculate_daily_profits: idle, or its dict iterator
    sweep,             \* process_payment_batches: idle, or its settlement loop
    reset_job,         \* reset_daily_limits: its schedule, its runs today
    started            \* started and accrual ticks started so far (bounded by MaxOps)

vars == << users_db, order, transactions_db, payments_db, clock, handler,
           accrual, sweep, reset_job, started >>

----------------------------------------------------------------------------
(* Bounds of the model *)

\* Two user ids; NoUser is the absent /start argument.
Users == {"u1", "u2"}
NoUser == "none"

\* The batch threshold, scaled down from the 1000 of src/bot.py:993 so that
\* the user population can reach it.
TargetUsers == 2

\* Days 0..MaxDay are observed.
MaxDay == 1

\* The transaction log holds at most MaxTx entries.
MaxTx == 8

\* At most MaxOps user started (session starts, toggles, dice rolls, batch
\* queries, ad watches, confirmations) and profit-accrual ticks are started in
\* one behaviour.
MaxOps == 2

\* At most MaxResetRuns runs of the daily reset per day.
MaxResetRuns == 2

\* At most MaxPlays dice rolls per user and day.
MaxPlays == 1

\* At most MaxBatches payment batches are created.
MaxBatches == 3

\* The hours at which the clock is observed: hour 0, in which the reset acts, and one other.
SampleHours == <<0, 17>>

NoDate == -1

\* Streaks of up to MaxStreak days are on record when the streak logic is
\* observed, on day StreakDay.
MaxStreak == 8
StreakDay == 2

----------------------------------------------------------------------------
(* Program constants *)

StartingBalance == 5000
ReferralBonus == 5000
ReferralsRequired == 6
AdsRequired == 20
BaseCapital == 5000
DailyAttempts == 10
GameReward == 800
MinWithdrawal == 5000
VerificationCredit == 500
StreakBase == 500
StreakStep == 100
StreakCap == 1100

Games == {"memory", "dice", "snake", "trivia", "wheel", "ayo", "naira_chase"}

\* The bands with DAYTIME starting an hour late: hour 8 is in none.
ProfitTimeRangeGap == << <<0, 7, 35, 50>>, <<9, 16, 21, 34>>, <<17, 23, 20, 20>> >>

\* ProfitTimeRange, in percent: <<start, end, min_profit, max_profit>>.
ProfitTimeRange == << <<0, 7, 35, 50>>, <<8, 16, 21, 34>>, <<17, 23, 20, 20>> >>

----------------------------------------------------------------------------
(* The user table *)

FullAttempts == [g \in Games |-> DailyAttempts]

\* The record get_user stores for an id it has not seen.
NewUser ==
    [ balance                 |-> StartingBalance,
      trading_capital         |-> 0,
      withdrawable_profit     |-> 0,
      referrals               |-> 0,
      ads_watched             |-> 0,
      verified                |-> FALSE,
      trading_active          |-> FALSE,
      streak_count            |-> 0,
      streak_last_login       |-> NoDate,
      referral_bonus_eligible |-> TRUE,
      game_attempts           |-> FullAttempts ]

\* users_db after get_user(u).
GetUser(db, u) ==
    IF u \in DOMAIN db THEN db
    ELSE [x \in (DOMAIN db) \cup {u} |-> IF x = u THEN NewUser ELSE db[x]]

\* The insertion order after get_user(u).
GetUserOrder(ord, db, u) == IF u \in DOMAIN db THEN ord ELSE Append(ord, u)

Range(seq) == { seq[i] : i \in 1..Len(seq) }

Put(db, u, rec) == [db EXCEPT ![u] = rec]

\* A transaction recorded as still pending.
TxPending(u, amount, type) ==
    [user_id |-> u, amount |-> amount, type |-> type, status |-> "pending"]

Tx(u, amount, type) ==
    [user_id |-> u, amount |-> amount, type |-> type, status |-> "completed"]

----------------------------------------------------------------------------
(* TradingActivationGate *)

\* The gate without the base capital: what has been referred in, nothing more.
CheckTradingActivationNoBase(user) ==
    IF /\ user.referrals >= ReferralsRequired
       /\ user.ads_watched >= AdsRequired
       /\ ~user.trading_active
    THEN [user EXCEPT !.trading_active = TRUE,
                      !.trading_capital = user.referrals * ReferralBonus]
    ELSE user

\* The gate without line 228: the capital stays what the referrals made it.
CheckTradingActivationKeepsCapital(user) ==
    IF /\ user.referrals >= ReferralsRequired
       /\ user.ads_watched >= AdsRequired
       /\ ~user.trading_active
    THEN [user EXCEPT !.trading_active = TRUE]
    ELSE user

ActivationMet(user) ==
    user.referrals >= ReferralsRequired /\ user.ads_watched >= AdsRequired

\* check_trading_activation, on the user's record.
CheckTradingActivation(user) ==
    IF ActivationMet(user) /\ ~user.trading_active
    THEN [user EXCEPT !.trading_active = TRUE,
                      !.trading_capital = BaseCapital + user.referrals * ReferralBonus]
    ELSE user

----------------------------------------------------------------------------
(* ReferralTracker: the referral branch of start *)

\* The referral branch without its guard (line 410 left out).
NoReferralGuard(referrer) == TRUE

ReferralAllowed(referrer) ==
    referrer.referral_bonus_eligible /\ referrer.referrals < ReferralsRequired

\* The referral branch without line 413: the capital is not raised.
ApplyReferralNoCapital(referrer) ==
    LET r1 == [referrer EXCEPT !.referrals = @ + 1,
                               !.balance = @ + ReferralBonus]
    IN  IF r1.referrals >= ReferralsRequired
        THEN CheckTradingActivation([r1 EXCEPT !.referral_bonus_eligible = FALSE])
        ELSE r1

\* The referral branch without line 416: the flag is never cleared.
ApplyReferralKeepsEligible(referrer) ==
    LET r1 == [referrer EXCEPT !.referrals = @ + 1,
                               !.balance = @ + ReferralBonus,
                               !.trading_capital = @ + ReferralBonus]
    IN  IF r1.referrals >= ReferralsRequired
        THEN CheckTradingActivation(r1)
        ELSE r1

\* Lines 411-417 on the referrer's record.
ApplyReferral(referrer) ==
    LET r1 == [referrer EXCEPT !.referrals = @ + 1,
                               !.balance = @ + ReferralBonus,
                               !.trading_capital = @ + ReferralBonus]
    IN  IF r1.referrals >= ReferralsRequired
        THEN CheckTradingActivation([r1 EXCEPT !.referral_bonus_eligible = FALSE])
        ELSE r1

\* The test of line 408 without its second half: a user may refer itself.
ReferralAppliesToSelf(db, u, arg) ==
    /\ arg # NoUser
    /\ arg \in DOMAIN db
    /\ ReferralAllowed(db[arg])

\* Does start(u, arg) apply a referral?  db is users_db after get_user(u).
ReferralApplies(db, u, arg) ==
    /\ arg # NoUser
    /\ arg \in DOMAIN db
    /\ arg # u
    /\ ReferralAllowed(db[arg])

----------------------------------------------------------------------------
(* StreakBonus *)

\* The bonus without its cap.
StreakBonusUncapped(count) == StreakBase + (count - 1) * StreakStep

StreakBonus(count) ==
    LET b == StreakBase + (count - 1) * StreakStep
    IN  IF b < StreakCap THEN b ELSE StreakCap

\* update_login_streak without the test of line 154: every session start is
\* paid.
UpdateLoginStreakAlways(user, today) ==
    LET c == IF /\ user.streak_last_login # NoDate
                /\ user.streak_last_login = today - 1
             THEN user.streak_count + 1 ELSE 1
    IN  [user EXCEPT !.streak_count = c,
                     !.balance = @ + StreakBonus(c),
                     !.streak_last_login = today]

\* update_login_streak without the else of line 161: a streak is never reset.
UpdateLoginStreakNoReset(user, today) ==
    IF user.streak_last_login # today
    THEN [user EXCEPT !.streak_count = @ + 1,
                      !.balance = @ + StreakBonus(user.streak_count + 1),
                      !.streak_last_login = today]
    ELSE user

\* update_login_streak on the user's record, today being day `today`.
UpdateLoginStreak(user, today) ==
    IF user.streak_last_login # today
    THEN LET c == IF /\ user.streak_last_login # NoDate
                     /\ user.streak_last_login = today - 1
                  THEN user.streak_count + 1 ELSE 1
         IN  [user EXCEPT !.streak_count = c,
                          !.balance = @ + StreakBonus(c),
                          !.streak_last_login = today]
    ELSE user


----------------------------------------------------------------------------
(* recordAdWatch and confirmVerification (spec.md 4.3, 4.4, 6) *)

\* An ad watch on the user's record: the count goes up by one and the gate is
\* invoked.
RecordAd(user) ==
    CheckTradingActivation([user EXCEPT !.ads_watched = @ + 1])

\* A confirmation without the test of verified: the credit is given again.
ConfirmAgain(user) ==
    [user EXCEPT !.verified = TRUE,
                 !.withdrawable_profit = @ + VerificationCredit]

\* A confirmation on the user's record; an already verified user is left alone.
Confirm(user) ==
    IF user.verified THEN user
    ELSE [user EXCEPT !.verified = TRUE,
                      !.withdrawable_profit = @ + VerificationCredit]

----------------------------------------------------------------------------
(* Clock and rate bands *)

Hour == clock.hours[clock.slot]

\* The rates (in percent) calculate_daily_profits can draw at hour h: both
\* ends of the band of h, or 0 when no band holds h (the for-else branch).
RECURSIVE BandFrom(_, _)
BandFrom(h, i) ==
    IF i > Len(ProfitTimeRange) THEN {0}
    ELSE IF ProfitTimeRange[i][1] <= h /\ h <= ProfitTimeRange[i][2]
         THEN {ProfitTimeRange[i][3], ProfitTimeRange[i][4]}
         ELSE BandFrom(h, i + 1)

RatePcts(h) == BandFrom(h, 1)

Profit(user, pct) == (user.trading_capital * pct) \div 100

----------------------------------------------------------------------------
(* Payment batches *)

NewBatch(id) ==
    [ id |-> id, target_users |-> TargetUsers, current_users |-> 0,
      payout_date |-> NoDate, completed |-> FALSE ]

\* next(b for b in payments_db if not completed): its index, 0 when none.
RECURSIVE OpenFrom(_, _)
OpenFrom(pdb, i) ==
    IF i > Len(pdb) THEN 0
    ELSE IF ~pdb[i].completed THEN i ELSE OpenFrom(pdb, i + 1)

OpenBatch(pdb) == OpenFrom(pdb, 1)

\* The list of line 1003 without its test of the amount.
EligibleAnyAmount(user) == user.verified

\* The list of line 1003 without its test of verified.
EligibleUnverified(user) == user.withdrawable_profit >= MinWithdrawal

Eligible(user) ==
    user.verified /\ user.withdrawable_profit >= MinWithdrawal

\* The eligible ids, in the order the dict yields them.
EligibleUsers(db, ord) == SelectSeq(ord, LAMBDA u : Eligible(db[u]))

----------------------------------------------------------------------------
(* Initial states *)

RECURSIVE Referred(_, _)
Referred(user, k) ==
    IF k = 0 THEN user ELSE Referred(ApplyReferral(user), k - 1)

RECURSIVE AdsWatched(_, _)
AdsWatched(user, n) ==
    IF n = 0 THEN user ELSE AdsWatched(RecordAd(user), n - 1)

\* A user that a callback handler created (get_user, no streak yet), after k
\* referrals by other users and n ad watches today.
Veteran(k, n) == AdsWatched(Referred(NewUser, k), n)

SeedProfiles == { <<5, 20>>, <<6, 19>>, <<6, 20>> }
SeedUsers == { Veteran(p[1], p[2]) : p \in SeedProfiles }

\* A veteran over the gate whose verification has been confirmed.
Trader == Confirm(Veteran(ReferralsRequired, AdsRequired))

NoUsers == [u \in {} |-> NewUser]

\* No handler is running.  A running one records where it waits (pc), its
\* user, the /start argument, whether the referral was applied, and the text
\* it is sending.
Idle == [pc |-> "idle", user |-> NoUser, arg |-> NoUser, applied |-> FALSE,
         text |-> "none"]

\* The populations the model starts from, each with the log it has written:
\* nobody yet (the process has just started); one or two veterans; two
\* traders, confirmed in turn.
Seeds ==
    { [order |-> << >>, users |-> NoUsers, log |-> << >>] }
    \cup { [order |-> << "u1" >>, users |-> db, log |-> << >>] :
             db \in [{"u1"} -> SeedUsers] }
    \cup { [order |-> << "u1", "u2" >>, users |-> db, log |-> << >>] :
             db \in [{"u1", "u2"} -> SeedUsers] }
    \cup { [order |-> << "u1", "u2" >>,
            users |-> [u \in {"u1", "u2"} |-> Trader],
            log |-> << Tx("u1", VerificationCredit, "verification_credit"),
                       Tx("u2", VerificationCredit, "verification_credit") >>] }

\* process_payment_batches at rest.  While it runs: todo, the rest of
\* eligible_users; eligible, the whole list; snap, each listed user's
\* withdrawable_profit when the list was made; base, the length of the log
\* then; failed, the users whose send raised (the errors line 1033 logs).
SweepIdle ==
    [pc |-> "idle", todo |-> << >>, eligible |-> << >>,
     snap |-> [u \in {} |-> 0], base |-> 0, failed |-> {}]

InitLedger ==
    /\ \E s \in Seeds :
          /\ order = s.order
          /\ users_db = s.users
          /\ transactions_db = s.log
    /\ payments_db = << NewBatch(1) >>
    /\ handler = Idle
    /\ accrual = [pc |-> "idle", pos |-> 0, size |-> 0]
    /\ sweep = SweepIdle
    /\ started = 0

\* The ticks are the operations of the interface (spec.md 6): the scheduler
\* outside may invoke the daily reset at any time.
Init ==
    /\ InitLedger
    /\ clock = [day |-> 0, slot |-> 1, hours |-> SampleHours]
    /\ reset_job = [hour |-> NoDate, runs_today |-> 0]

\* main() schedules reset_daily_limits every 86400 s, first 60 s after the
\* start: it runs once a day, at the hour of the start.
InitSched ==
    /\ InitLedger
    /\ clock \in [day : {0}, slot : 1..Len(SampleHours), hours : {SampleHours}]
    /\ reset_job = [hour |-> Hour, runs_today |-> 0]

----------------------------------------------------------------------------
(* Update handlers.  One handler runs at a time. *)

\* One more operation is started.
Served == started < MaxOps /\ started' = started + 1

\* start, up to its first suspending await: get_user, then the referral
\* branch (lines 406-417).  The handler then waits in send_message (419) or
\* reply_text (450).
Start(u, arg) ==
    /\ handler.pc = "idle"
    /\ Served
    /\ LET db1 == GetUser(users_db, u)
           applies == ReferralApplies(db1, u, arg)
       IN  /\ users_db' = IF applies
                          THEN Put(db1, arg, ApplyReferral(db1[arg]))
                          ELSE db1
           /\ handler' = [pc |-> "start", user |-> u, arg |-> arg,
                          applied |-> applies,
                          text |-> IF applies THEN "new_referral" ELSE "welcome"]
    /\ order' = GetUserOrder(order, users_db, u)
    /\ UNCHANGED << transactions_db, payments_db, clock, accrual, sweep,
                    reset_job >>

\* send_message (419) or reply_text (450) raises: start has no try around
\* them, so the handler ends there and update_login_streak is not reached.
StartFails ==
    /\ handler.pc = "start"
    /\ handler' = Idle
    /\ UNCHANGED << users_db, order, transactions_db, payments_db, clock,
                    accrual, sweep, reset_job, started >>

\* The sends succeed: update_login_streak (456-457), whose own send is inside
\* a try, then sync_with_web_app, which only reads.
StartStreak ==
    /\ handler.pc = "start"
    /\ users_db' = Put(users_db, handler.user,
                       UpdateLoginStreak(users_db[handler.user], clock.day))
    /\ handler' = Idle
    /\ UNCHANGED << order, transactions_db, payments_db, clock, accrual,
                    sweep, reset_job, started >>

\* toggle_trading asking for the referrals only.
ToggleNoAdsCheck(user) ==
    IF user.trading_active
    THEN [user EXCEPT !.trading_active = FALSE]
    ELSE IF user.referrals >= ReferralsRequired
         THEN [user EXCEPT !.trading_active = TRUE,
                           !.trading_capital =
                               BaseCapital + user.referrals * ReferralBonus]
         ELSE user

\* toggle_trading adding the base to the capital instead of recomputing it.
ToggleAddsBase(user) ==
    IF user.trading_active
    THEN [user EXCEPT !.trading_active = FALSE]
    ELSE IF ActivationMet(user)
         THEN [user EXCEPT !.trading_active = TRUE,
                           !.trading_capital = @ + BaseCapital]
         ELSE user

\* toggle_trading writing the capital before it looks at the requirements.
ToggleRecomputesCapital(user) ==
    IF user.trading_active
    THEN [user EXCEPT !.trading_active = FALSE]
    ELSE [user EXCEPT !.trading_active = ActivationMet(user),
                      !.trading_capital =
                          BaseCapital + user.referrals * ReferralBonus]

\* The outcome of toggle_trading (587-600) on the user's record.
Toggle(user) ==
    IF user.trading_active
    THEN [user EXCEPT !.trading_active = FALSE]
    ELSE IF ActivationMet(user)
         THEN [user EXCEPT !.trading_active = TRUE,
                           !.trading_capital =
                               BaseCapital + user.referrals * ReferralBonus]
         ELSE user

\* The text toggle_trading puts on the screen (589, 594, 596-600).
ToggleText(user) ==
    IF user.trading_active THEN "deactivated"
    ELSE IF ActivationMet(user) THEN "activated"
         ELSE "requirements_not_met"

\* toggle_trading from get_user (584) to its edit_message_text, in which it
\* waits.
ToggleTrading(u) ==
    /\ handler.pc = "idle"
    /\ Served
    /\ LET db1 == GetUser(users_db, u)
       IN  /\ users_db' = Put(db1, u, Toggle(db1[u]))
           /\ handler' = [pc |-> "toggle", user |-> u, arg |-> NoUser,
                          applied |-> FALSE, text |-> ToggleText(db1[u])]
    /\ order' = GetUserOrder(order, users_db, u)
    /\ UNCHANGED << transactions_db, payments_db, clock, accrual, sweep,
                    reset_job >>

\* edit_message_text returned or raised; show_trading (602) only reads and
\* sends.
ToggleShown ==
    /\ handler.pc = "toggle"
    /\ handler' = Idle
    /\ UNCHANGED << users_db, order, transactions_db, payments_db, clock,
                    accrual, sweep, reset_job, started >>

\* roll_dice (365-384): one attempt is used; a win goes through
\* update_balance, which appends a transaction typed by its note.
RollDice(u, win) ==
    /\ handler.pc = "idle"
    /\ Served
    /\ LET db1 == GetUser(users_db, u)
           a == db1[u].game_attempts["dice"]
       IN  /\ a > 0
           /\ a > DailyAttempts - MaxPlays
           /\ win => Len(transactions_db) < MaxTx
           /\ users_db' = Put(db1, u,
                  [db1[u] EXCEPT !.game_attempts["dice"] = a - 1,
                                 !.balance = IF win THEN @ + GameReward ELSE @])
           /\ transactions_db' =
                  IF win
                  THEN Append(transactions_db, Tx(u, GameReward, "Dice Game Win"))
                  ELSE transactions_db
    /\ order' = GetUserOrder(order, users_db, u)
    /\ UNCHANGED << payments_db, clock, handler, accrual, sweep, reset_job >>

\* check_batch (753-762): a batch with id 1 is appended when none is open.
CheckBatch ==
    /\ handler.pc = "idle"
    /\ Served
    /\ OpenBatch(payments_db) = 0
    /\ Len(payments_db) < MaxBatches
    /\ payments_db' = Append(payments_db, NewBatch(1))
    /\ UNCHANGED << users_db, order, transactions_db, clock, handler, accrual,
                    sweep, reset_job >>

\* recordAdWatch(u) for a known user.
RecordAdWatch(u) ==
    /\ u \in DOMAIN users_db
    /\ Served
    /\ users_db' = Put(users_db, u, RecordAd(users_db[u]))
    /\ UNCHANGED << order, transactions_db, payments_db, clock, handler,
                    accrual, sweep, reset_job >>

\* confirmVerification(u) for a known user: the credit and its transaction on
\* the first confirmation, nothing on a later one.
ConfirmVerification(u) ==
    /\ Served
    /\ u \in DOMAIN users_db
    /\ ~users_db[u].verified => Len(transactions_db) < MaxTx
    /\ users_db' = Put(users_db, u, Confirm(users_db[u]))
    /\ transactions_db' =
           IF Confirm(users_db[u]) # users_db[u]
           THEN Append(transactions_db,
                       Tx(u, Confirm(users_db[u]).withdrawable_profit
                                 - users_db[u].withdrawable_profit,
                          "verification_credit"))
           ELSE transactions_db
    /\ UNCHANGED << order, payments_db, clock, handler, accrual, sweep,
                    reset_job >>

----------------------------------------------------------------------------
(* calculate_daily_profits *)

\* The loop without the test of line 872: every user is credited.
NextUser(db, ord, i) == IF i > Len(ord) THEN 0 ELSE i

\* The index of the first active user at or after index i of the dict; 0 when
\* the iteration ends without one.
RECURSIVE NextActive(_, _, _)
NextActive(db, ord, i) ==
    IF i > Len(ord) THEN 0
    ELSE IF db[ord[i]].trading_active THEN i
         ELSE NextActive(db, ord, i + 1)

\* Lines 885-886 on the user's record.
Credit(user, pct) ==
    [user EXCEPT !.withdrawable_profit = @ + Profit(user, pct)]

\* The loop from dict index `from` on: users that are not active are passed
\* without an await; the first active one is credited, its transaction is
\* appended and the job waits in send_message (898).  `size` is the dict size
\* the iterator was made with.
AccrualLoop(from, size) ==
    LET i == NextActive(users_db, order, from)
    IN  IF i = 0
        THEN /\ accrual' = [pc |-> "idle", pos |-> 0, size |-> 0]
             /\ UNCHANGED << users_db, transactions_db >>
        ELSE /\ Len(transactions_db) < MaxTx
             /\ \E pct \in RatePcts(Hour) :
                  /\ users_db' = Put(users_db, order[i],
                                     Credit(users_db[order[i]], pct))
                  /\ transactions_db' =
                         Append(transactions_db,
                                Tx(order[i], Profit(users_db[order[i]], pct),
                                   "profit"))
             /\ accrual' = [pc |-> "run", pos |-> i, size |-> size]

AccrualStart ==
    /\ accrual.pc = "idle"
    /\ Served
    /\ AccrualLoop(1, Len(order))
    /\ UNCHANGED << order, payments_db, clock, handler, sweep, reset_job >>

\* The send returned (or raised inside its try) and the dict has the size it
\* had: the loop goes on.
AccrualResume ==
    /\ accrual.pc = "run"
    /\ Len(order) = accrual.size
    /\ AccrualLoop(accrual.pos + 1, accrual.size)
    /\ UNCHANGED << order, payments_db, clock, handler, sweep, reset_job,
                    started >>

\* A user was created while the job waited: the dict iterator raises
\* RuntimeError (dictionary changed size during iteration) and the job ends.
AccrualRaises ==
    /\ accrual.pc = "run"
    /\ Len(order) # accrual.size
    /\ accrual' = [pc |-> "idle", pos |-> 0, size |-> 0]
    /\ UNCHANGED << users_db, order, transactions_db, payments_db, clock,
                    handler, sweep, reset_job, started >>

----------------------------------------------------------------------------
(* reset_daily_limits and send_automatic_messages *)

\* The reset also clearing the day's profit.
ResetUserAndProfit(user) ==
    [user EXCEPT !.ads_watched = 0,
                 !.trading_active = FALSE,
                 !.withdrawable_profit = 0,
                 !.game_attempts = FullAttempts]

\* Lines 910-920 on the user's record.
ResetUser(user) ==
    [user EXCEPT !.ads_watched = 0,
                 !.trading_active = FALSE,
                 !.game_attempts = FullAttempts]

\* users_db after reset_daily_limits at hour h.
ResetAt(db, h) ==
    IF h = 0 THEN [u \in DOMAIN db |-> ResetUser(db[u])] ELSE db

\* Is a run of the job due?  Invoked from outside: at any time.  Scheduled by
\* main(): once a day, in the hour of the start.
ResetDue ==
    IF reset_job.hour = NoDate
    THEN reset_job.runs_today < MaxResetRuns
    ELSE Hour = reset_job.hour /\ reset_job.runs_today = 0

ResetDailyLimits ==
    /\ ResetDue
    /\ users_db' = ResetAt(users_db, Hour)
    /\ reset_job' = [reset_job EXCEPT !.runs_today = @ + 1]
    /\ UNCHANGED << order, transactions_db, payments_db, clock, handler,
                    accrual, sweep, started >>

\* send_automatic_messages in the first five minutes of hour 0 (946-948):
\* every active user is deactivated.  Its other branches only send.
SendAutomaticMessages ==
    /\ Hour = 0
    /\ users_db' = [u \in DOMAIN users_db |->
                       [users_db[u] EXCEPT !.trading_active = FALSE]]
    /\ UNCHANGED << order, transactions_db, payments_db, clock, handler,
                    accrual, sweep, reset_job, started >>

----------------------------------------------------------------------------
(* process_payment_batches *)

\* The amount paid out, had it been taken from the list of line 1002.
CapturedAtSnapshot(user, listed) == listed

\* Line 1016: the amount paid out is the user's withdrawable_profit when the
\* loop reaches the user; `listed` is what it was when the list was made.
Captured(user, listed) == user.withdrawable_profit

\* Line 1017.
Settled(user) == [user EXCEPT !.withdrawable_profit = 0]

\* The loop ending with the first send that raises.
LoopStopsOnFailure(sent) == sent

\* Does the loop go on to the next user after the send for a user returned
\* (sent) or raised?  The try of lines 1014-1033 holds the send.
LoopGoesOn(sent) == TRUE

\* The user whose send the loop waits for.
Current == sweep.eligible[Len(sweep.eligible) - Len(sweep.todo)]

\* Lines 987-1011, and the first round of the loop when the threshold is met;
\* the job then waits in send_message (1028).
SweepStart ==
    /\ sweep.pc = "idle"
    /\ OpenBatch(payments_db) = 0 => Len(payments_db) < MaxBatches
    /\ LET pdb1 == IF OpenBatch(payments_db) = 0
                   THEN Append(payments_db, NewBatch(Len(payments_db) + 1))
                   ELSE payments_db
           b == OpenBatch(pdb1)
           el == EligibleUsers(users_db, order)
           snap == [u \in Range(el) |-> users_db[u].withdrawable_profit]
       IN  IF Len(el) >= pdb1[b].target_users
           THEN /\ Len(transactions_db) < MaxTx
                /\ payments_db' = [pdb1 EXCEPT ![b].current_users = Len(el),
                                               ![b].completed = TRUE,
                                               ![b].payout_date = clock.day]
                /\ users_db' = Put(users_db, el[1], Settled(users_db[el[1]]))
                /\ transactions_db' =
                       Append(transactions_db,
                              Tx(el[1], Captured(users_db[el[1]], snap[el[1]]),
                                 "withdrawal"))
                /\ sweep' = [pc |-> "run", todo |-> Tail(el), eligible |-> el,
                             snap |-> snap, base |-> Len(transactions_db),
                             failed |-> {}]
           ELSE /\ payments_db' = [pdb1 EXCEPT ![b].current_users = Len(el)]
                /\ UNCHANGED << users_db, transactions_db, sweep >>
    /\ UNCHANGED << order, clock, handler, accrual, reset_job, started >>

\* The send for the current user returned (sent) or raised, which line 1033
\* logs; the next round of the loop (1013-1028) follows.
SweepResume(sent) ==
    /\ sweep.pc = "run"
    /\ sweep.todo # << >>
    /\ IF LoopGoesOn(sent)
       THEN /\ Len(transactions_db) < MaxTx
            /\ LET u == Head(sweep.todo)
               IN  /\ users_db' = Put(users_db, u, Settled(users_db[u]))
                   /\ transactions_db' =
                          Append(transactions_db,
                                 Tx(u, Captured(users_db[u], sweep.snap[u]),
                                    "withdrawal"))
            /\ sweep' = [sweep EXCEPT
                           !.todo = Tail(@),
                           !.failed = IF sent THEN @ ELSE @ \cup {Current}]
       ELSE /\ sweep' = SweepIdle
            /\ UNCHANGED << users_db, transactions_db >>
    /\ UNCHANGED << order, payments_db, clock, handler, accrual, reset_job,
                    started >>

\* The last send returned or raised and the loop is over; send_payment_proofs
\* (1036) only sends.
SweepFinish ==
    /\ sweep.pc = "run"
    /\ sweep.todo = << >>
    /\ sweep' = SweepIdle
    /\ UNCHANGED << users_db, order, transactions_db, payments_db, clock,
                    handler, accrual, reset_job, started >>

----------------------------------------------------------------------------
(* Time *)

\* The clock moves to the next observed hour.  A scheduled reset runs in its
\* hour before the clock leaves it.
Tick ==
    /\ reset_job.hour # NoDate /\ Hour = reset_job.hour
           => reset_job.runs_today > 0
    /\ IF clock.slot < Len(clock.hours)
       THEN /\ clock' = [clock EXCEPT !.slot = @ + 1]
            /\ UNCHANGED reset_job
       ELSE /\ clock.day < MaxDay
            /\ clock' = [clock EXCEPT !.day = @ + 1, !.slot = 1]
            /\ reset_job' = [reset_job EXCEPT !.runs_today = 0]
    /\ UNCHANGED << users_db, order, transactions_db, payments_db, handler,
                    accrual, sweep, started >>

----------------------------------------------------------------------------
(* Specifications *)

Next ==
    \/ \E u \in Users, arg \in Users \cup {NoUser} : Start(u, arg)
    \/ StartFails
    \/ StartStreak
    \/ \E u \in Users : ToggleTrading(u)
    \/ ToggleShown
    \/ \E u \in Users, win \in BOOLEAN : RollDice(u, win)
    \/ CheckBatch
    \/ \E u \in Users : RecordAdWatch(u)
    \/ \E u \in Users : ConfirmVerification(u)
    \/ AccrualStart
    \/ AccrualResume
    \/ AccrualRaises
    \/ ResetDailyLimits
    \/ SendAutomaticMessages
    \/ SweepStart
    \/ \E sent \in BOOLEAN : SweepResume(sent)
    \/ SweepFinish
    \/ Tick

Spec == Init /\ [][Next]_vars

SpecSched == InitSched /\ [][Next]_vars

\* The streak logic on its own.  A user who started a session on each of n
\* days in a row:
RECURSIVE Logins(_, _)
Logins(user, n) ==
    IF n = 0 THEN user ELSE UpdateLoginStreak(Logins(user, n - 1), n)

\* ... the last of them on day `last`.
Streaker(n, last) == [Logins(NewUser, n) EXCEPT !.streak_last_login = last]

StreakSeeds ==
    {NewUser} \cup { Streaker(n, last) : n \in 1..MaxStreak, last \in 0..StreakDay }

\* One user with a streak on record, on day StreakDay.
InitStreak ==
    /\ order = << "u1" >>
    /\ users_db \in [{"u1"} -> StreakSeeds]
    /\ transactions_db = << >>
    /\ payments_db = << NewBatch(1) >>
    /\ handler = Idle
    /\ accrual = [pc |-> "idle", pos |-> 0, size |-> 0]
    /\ sweep = SweepIdle
    /\ started = 0
    /\ clock = [day |-> StreakDay, slot |-> 1, hours |-> SampleHours]
    /\ reset_job = [hour |-> NoDate, runs_today |-> 0]

\* Session starts, and time.
NextStreak ==
    \/ \E u \in Users, arg \in Users \cup {NoUser} : Start(u, arg)
    \/ StartFails
    \/ StartStreak
    \/ Tick

SpecStreak == InitStreak /\ [][NextStreak]_vars

\* The referral branch on its own.  The referrer u1 has been referred
\* 0, 3, 5 or 6 times and has watched no ad or all of them; u2 is not known
\* yet.  Every referral u1 is credited from here on comes from u2.
ReferralSeeds ==
    { Veteran(n, a) : n \in {0, 3, 5, ReferralsRequired}, a \in {0, AdsRequired} }

InitReferral ==
    /\ order = << "u1" >>
    /\ users_db \in [{"u1"} -> ReferralSeeds]
    /\ transactions_db = << >>
    /\ payments_db = << NewBatch(1) >>
    /\ handler = Idle
    /\ accrual = [pc |-> "idle", pos |-> 0, size |-> 0]
    /\ sweep = SweepIdle
    /\ started = 0
    /\ clock = [day |-> 0, slot |-> 1, hours |-> SampleHours]
    /\ reset_job = [hour |-> NoDate, runs_today |-> 0]

SpecReferral == InitReferral /\ [][NextStreak]_vars

\* The accrual among session starts.  Two users over the gate, trading, are
\* in the table; they and a third id, not seen before, start sessions.
Newcomer == "u3"

InitAccrual ==
    /\ order = << "u1", "u2" >>
    /\ users_db = [u \in {"u1", "u2"} |-> Veteran(ReferralsRequired, AdsRequired)]
    /\ transactions_db = << >>
    /\ payments_db = << NewBatch(1) >>
    /\ handler = Idle
    /\ accrual = [pc |-> "idle", pos |-> 0, size |-> 0]
    /\ sweep = SweepIdle
    /\ started = 0
    /\ clock = [day |-> 0, slot |-> 1, hours |-> SampleHours]
    /\ reset_job = [hour |-> NoDate, runs_today |-> 0]

NextAccrual ==
    \/ \E u \in Users \cup {Newcomer} : Start(u, NoUser)
    \/ StartFails
    \/ StartStreak
    \/ AccrualStart
    \/ AccrualResume
    \/ AccrualRaises
    \/ Tick

SpecAccrual == InitAccrual /\ [][NextAccrual]_vars

\* The accrual on its own, at every hour of the day.
AllHours == [i \in 1..24 |-> i - 1]

\* Two users over the gate, trading, on any hour of day 0.
InitRates ==
    /\ order = << "u1", "u2" >>
    /\ users_db = [u \in {"u1", "u2"} |-> Veteran(ReferralsRequired, AdsRequired)]
    /\ transactions_db = << >>
    /\ payments_db = << NewBatch(1) >>
    /\ handler = Idle
    /\ accrual = [pc |-> "idle", pos |-> 0, size |-> 0]
    /\ sweep = SweepIdle
    /\ started = 0
    /\ clock \in [day : {0}, slot : 1..Len(AllHours), hours : {AllHours}]
    /\ reset_job = [hour |-> NoDate, runs_today |-> 0]

\* Accrual ticks, and time.
NextRates ==
    \/ AccrualStart
    \/ AccrualResume
    \/ Tick

SpecRates == InitRates /\ [][NextRates]_vars

----------------------------------------------------------------------------
(* Properties *)

Known == DOMAIN users_db

\* The transactions the step appends.
Appended ==
    SubSeq(transactions_db', Len(transactions_db) + 1, Len(transactions_db'))

\* C1: whatever operations have run, every user's referrals lie in 0..6.
C1_ReferralsWithinSix ==
    \A u \in Known :
        users_db[u].referrals >= 0 /\ users_db[u].referrals <= ReferralsRequired

\* A session start carried a referral for a referrer who already has six: it
\* was not applied.
C1_Witness ==
    /\ handler.pc = "start"
    /\ handler.arg \in Known
    /\ handler.arg # handler.user
    /\ ~handler.applied
    /\ users_db[handler.arg].referrals = ReferralsRequired

\* C2: in every state, and so wherever another handler or job can run, a
\* user's referral_bonus_eligible is false exactly when referrals is 6.
C2_EligibleUntilSix ==
    \A u \in Known :
        ~users_db[u].referral_bonus_eligible
            <=> users_db[u].referrals = ReferralsRequired

\* start waits in an await right after the referral that made it six.
C2_Witness ==
    /\ handler.pc = "start"
    /\ handler.applied
    /\ users_db[handler.arg].referrals = ReferralsRequired
    /\ ~users_db[handler.arg].referral_bonus_eligible

\* C3: a step that turns trading_active from false to true, by the gate check
\* or by a toggle, leaves referrals >= 6 and ads_watched >= 20 in the state in
\* which it is made.
C3_ActivationOnlyWhenMet ==
    [][ \A u \in Known :
          (~users_db[u].trading_active /\ users_db'[u].trading_active)
              => (users_db'[u].referrals >= ReferralsRequired
                  /\ users_db'[u].ads_watched >= AdsRequired) ]_vars

\* The referral just applied took its referrer over the gate.
C3_Witness ==
    /\ handler.pc = "start"
    /\ handler.applied
    /\ users_db[handler.arg].trading_active

\* C4: a step of the profit-accrual tick leaves every user that is not active
\* as it was and appends no transaction for it.
C4_InactiveUntouched ==
    [][ (AccrualStart \/ AccrualResume \/ AccrualRaises)
          => \A u \in Known :
                ~users_db[u].trading_active
                    => /\ users_db'[u] = users_db[u]
                       /\ \A i \in 1..Len(Appended) : Appended[i].user_id # u ]_vars

\* The tick has passed the first user, who never met the gate, and credited
\* the second.
C4_Witness ==
    /\ accrual.pc = "run"
    /\ accrual.pos = 2
    /\ users_db[order[1]].referrals < ReferralsRequired
    /\ users_db[order[1]].withdrawable_profit = 0
    /\ users_db[order[2]].withdrawable_profit > 0

\* The withdrawal transactions for u that the running sweep has appended.
SweptTx(u) ==
    { i \in (sweep.base + 1)..Len(transactions_db) :
        /\ transactions_db[i].user_id = u
        /\ transactions_db[i].type = "withdrawal" }

\* The settlement loop of a sweep that met the threshold has ended.
SweepOver == sweep.pc = "run" /\ sweep.todo = << >>

\* C5: once the loop of a sweep that met the threshold has ended, every user of
\* the eligibility snapshot has withdrawable_profit 0 and the sweep has
\* appended exactly one withdrawal for that user, for the amount the user had
\* when the snapshot was taken.
C5_SweptOnceForSnapshotAmount ==
    SweepOver =>
        \A u \in Range(sweep.eligible) :
            /\ users_db[u].withdrawable_profit = 0
            /\ Cardinality(SweptTx(u)) = 1
            /\ \A i \in SweptTx(u) : transactions_db[i].amount = sweep.snap[u]

\* C6: while the sweep runs, no user of the snapshot that is still to be
\* captured has a withdrawable_profit other than the one of the snapshot.
C6_SnapshotHeldUntilCapture ==
    sweep.pc = "run" =>
        \A u \in Range(sweep.todo) :
            users_db[u].withdrawable_profit = sweep.snap[u]

\* C7: a run of the daily reset on a day on which it has already run changes
\* no field of any user.
C7_SecondResetIsNoOp ==
    [][ (ResetDailyLimits /\ reset_job.runs_today >= 1)
          => users_db' = users_db ]_vars

\* C8: each day's run of the reset job, whatever the hour at which main()
\* started the schedule, leaves every user with ads_watched 0, trading off and
\* the daily game attempts.
C8_DailyRunResets ==
    [][ ResetDailyLimits
          => \A u \in Known :
                /\ users_db'[u].ads_watched = 0
                /\ ~users_db'[u].trading_active
                /\ users_db'[u].game_attempts = FullAttempts ]_vars

\* C9: a referral applied to a referrer with 5 referrals, eligible, 20 ads
\* watched and trading off leaves the referrer with 6 referrals, 5000 more
\* balance, not eligible, trading on and a trading capital of 35000.
C9_SixthReferralActivates ==
    [][ ( /\ handler.pc = "idle"
          /\ handler'.pc = "start"
          /\ handler'.applied
          /\ users_db[handler'.arg].referrals = 5
          /\ users_db[handler'.arg].referral_bonus_eligible
          /\ users_db[handler'.arg].ads_watched = 20
          /\ ~users_db[handler'.arg].trading_active )
        => ( /\ handler'.arg # handler'.user
             /\ users_db'[handler'.arg].referrals = 6
             /\ users_db'[handler'.arg].balance
                    = users_db[handler'.arg].balance + 5000
             /\ ~users_db'[handler'.arg].referral_bonus_eligible
             /\ users_db'[handler'.arg].trading_active
             /\ users_db'[handler'.arg].trading_capital = 35000 ) ]_vars

\* The scenario has run: the referrer stands at 6 referrals and 20 ads, active
\* on a capital of 35000, while the referred user's start is still waiting.
C9_Witness ==
    /\ handler.pc = "start"
    /\ handler.applied
    /\ users_db[handler.arg].referrals = 6
    /\ users_db[handler.arg].ads_watched = 20
    /\ users_db[handler.arg].trading_active
    /\ users_db[handler.arg].trading_capital = 35000
    /\ users_db[handler.arg].balance = StartingBalance + 6 * ReferralBonus


\* C10: the sweep that finds exactly TargetUsers eligible users ends with the
\* batch it found open completed, all of them at withdrawable_profit 0,
\* exactly TargetUsers withdrawals appended, and an open batch with
\* current_users 0 in payments_db.
C10_ThresholdSweepLeavesOpenBatch ==
    [][ (SweepFinish /\ Len(sweep.eligible) = TargetUsers)
          => ( /\ \E b \in 1..Len(payments_db') :
                     /\ payments_db'[b].completed
                     /\ payments_db'[b].current_users = TargetUsers
               /\ \A u \in Range(sweep.eligible) :
                     users_db'[u].withdrawable_profit = 0
               /\ Cardinality({ i \in (sweep.base + 1)..Len(transactions_db') :
                                  transactions_db'[i].type = "withdrawal" })
                      = TargetUsers
               /\ \E b \in 1..Len(payments_db') :
                     /\ ~payments_db'[b].completed
                     /\ payments_db'[b].current_users = 0 ) ]_vars

\* The batches of pdb that are not completed.
OpenBatches(pdb) == { b \in 1..Len(pdb) : ~pdb[b].completed }

\* C11: in every reachable state exactly one payment batch is open, also right
\* after a sweep has completed one.
C11_ExactlyOneOpenBatch == Cardinality(OpenBatches(payments_db)) = 1

\* The users a sweep counts: verified, with at least 5000 withdrawable.
Counted == { u \in Known : /\ users_db[u].verified
                           /\ users_db[u].withdrawable_profit >= 5000 }

\* The batches the step completes.
Completes == { b \in 1..Len(payments_db') :
                 /\ payments_db'[b].completed
                 /\ b \in 1..Len(payments_db) => ~payments_db[b].completed }

\* C12: a sweep completes the open batch exactly when the users it counts are
\* at least the target; a completed batch has a payout date and an open one has
\* none; a sweep that counts fewer leaves every user and the log as they were.
C12_CompletedIffThreshold ==
    [][ payments_db' # payments_db =>
        /\ \A b \in 1..Len(payments_db') :
              payments_db'[b].completed <=> payments_db'[b].payout_date # NoDate
        /\ SweepStart =>
              /\ Completes # {} <=> Cardinality(Counted) >= TargetUsers
              /\ \A b \in Completes : payments_db'[b].current_users = Cardinality(Counted)
              /\ Cardinality(Counted) < TargetUsers =>
                    /\ users_db' = users_db
                    /\ transactions_db' = transactions_db ]_vars

\* One batch was completed by a sweep that met the target, and a later sweep
\* counted one user only and left its batch open.
C12_Witness ==
    /\ sweep.pc = "idle"
    /\ \E b \in 1..Len(payments_db) :
          /\ payments_db[b].completed
          /\ payments_db[b].current_users = TargetUsers
          /\ payments_db[b].payout_date # NoDate
    /\ \E b \in 1..Len(payments_db) :
          /\ ~payments_db[b].completed
          /\ payments_db[b].current_users = 1
          /\ payments_db[b].payout_date = NoDate

\* C13: the batch ids increase strictly in the order of creation, whichever
\* operation created the batch.
C13_BatchIdsIncrease ==
    \A i, j \in 1..Len(payments_db) :
        i < j => payments_db[i].id < payments_db[j].id

\* C14: a step that turns a user's trading_active from true to false is a step
\* of the daily reset.
C14_OnlyResetDeactivates ==
    [][ (\E u \in Known : users_db[u].trading_active /\ ~users_db'[u].trading_active)
          => ResetDailyLimits ]_vars

\* C15: a toggle by a user who is not active and has fewer than 6 referrals or
\* fewer than 20 ads watched is refused: the user's record stays as it was (as
\* get_user made it, for a new id) and the handler reports the requirements.
C15_UnmetToggleRefused ==
    [][ (handler.pc = "idle" /\ handler'.pc = "toggle")
          => LET u == handler'.user
                 before == IF u \in Known THEN users_db[u] ELSE NewUser
             IN  ( /\ ~before.trading_active
                   /\ (before.referrals < 6 \/ before.ads_watched < 20) )
                    => /\ users_db'[u] = before
                       /\ ~users_db'[u].trading_active
                       /\ handler'.text = "requirements_not_met" ]_vars

\* A user with 6 referrals and 19 ads watched has pressed the toggle and is
\* shown the requirements.
C15_Witness ==
    /\ handler.pc = "toggle"
    /\ handler.text = "requirements_not_met"
    /\ users_db[handler.user].referrals = 6
    /\ users_db[handler.user].ads_watched = 19
    /\ ~users_db[handler.user].trading_active
    /\ users_db[handler.user].trading_capital = 30000

\* C16: a session start carrying a referral whose precondition fails (the
\* referrer is unknown, is the user itself, is no longer eligible or has 6
\* referrals) leaves the referrer's record as it was, creates no record for an
\* unknown referrer, appends no transaction and goes on to the welcome text.
C16_FailedReferralIsNoOp ==
    [][ (handler.pc = "idle" /\ handler'.pc = "start" /\ handler'.arg # NoUser)
          => LET u == handler'.user
                 r == handler'.arg
                 fails == \/ r \notin Known
                          \/ r = u
                          \/ ~users_db[r].referral_bonus_eligible
                          \/ users_db[r].referrals >= 6
             IN  fails =>
                   /\ r \in Known => users_db'[r] = users_db[r]
                   /\ (r \notin Known /\ r # u) => r \notin DOMAIN users_db'
                   /\ (r \notin Known /\ r = u) => users_db'[r] = NewUser
                   /\ transactions_db' = transactions_db
                   /\ handler'.text = "welcome" ]_vars

\* A user with 5 referrals, still eligible, has started a session with its own
\* referral link: nothing was counted.
C16_Witness ==
    /\ handler.pc = "start"
    /\ handler.arg = handler.user
    /\ handler.text = "welcome"
    /\ users_db[handler.user].referrals = 5
    /\ users_db[handler.user].referral_bonus_eligible
    /\ users_db[handler.user].balance = StartingBalance + 5 * ReferralBonus

\* The verification_credit transactions of u in the log.
VerificationCredits(u) ==
    { i \in 1..Len(transactions_db) :
        /\ transactions_db[i].user_id = u
        /\ transactions_db[i].type = "verification_credit" }

\* C17: a confirmation of a verified user leaves the user's record and the log
\* as they were, and in every state a verified user has exactly one
\* verification_credit transaction, of 500, and an unverified user has none.
C17_ConfirmationIdempotent ==
    /\ [] (\A u \in Known :
             /\ users_db[u].verified =>
                   /\ Cardinality(VerificationCredits(u)) = 1
                   /\ \A i \in VerificationCredits(u) :
                          transactions_db[i].amount = 500
             /\ ~users_db[u].verified => VerificationCredits(u) = {})
    /\ [][ \A u \in Known :
             (ConfirmVerification(u) /\ users_db[u].verified)
                 => /\ users_db'[u] = users_db[u]
                    /\ transactions_db' = transactions_db ]_vars

\* Both operations of the run have ended and all they have left is one
\* verification credit: the state after the user's first confirmation, in
\* which a second one ends.
C17_Witness ==
    /\ started = 2
    /\ handler.pc = "idle"
    /\ accrual.pc = "idle"
    /\ \E u \in Known :
          /\ users_db[u].verified
          /\ users_db[u].withdrawable_profit = VerificationCredit
          /\ Cardinality(VerificationCredits(u)) = 1
          /\ Len(transactions_db) = 1
          /\ users_db[u].game_attempts = FullAttempts
          /\ users_db[u].streak_last_login = NoDate
          /\ users_db[u].ads_watched = 19
          /\ ~users_db[u].trading_active
\* C18: a session start credits a streak bonus to a user only if the user's
\* last login on record is not today, and records today; and while the day
\* lasts a user whose last login is today keeps it, and a session start leaves
\* the user's balance as it was.  So a user gets at most one bonus a day.
C18_OneStreakBonusADay ==
    [][ \A u \in Known :
          /\ (StartStreak /\ handler.user = u
                /\ users_db'[u].balance # users_db[u].balance)
                => /\ users_db[u].streak_last_login # clock.day
                   /\ users_db'[u].streak_last_login = clock.day
          /\ (users_db[u].streak_last_login = clock.day /\ clock'.day = clock.day)
                => /\ users_db'[u].streak_last_login = clock.day
                   /\ StartStreak => users_db'[u].balance = users_db[u].balance
      ]_vars

\* A new user has started two sessions on day 0 and has been paid the bonus of
\* day 1 of a streak once.
C18_Witness ==
    /\ started = 2
    /\ handler.pc = "idle"
    /\ clock.day = 0
    /\ Known = {"u1"}
    /\ users_db["u1"] = [NewUser EXCEPT !.balance = StartingBalance + 500,
                                       !.streak_count = 1,
                                       !.streak_last_login = 0]

\* C19: the bonus a session start credits for the streak count c it sets is
\* min(500 + 100 * (c - 1), 1100): 500 for c = 1, 1100 for c >= 7, and always
\* within 500..1100.
C19_StreakBonusCapped ==
    [][ StartStreak =>
          LET u == handler.user
              c == users_db'[u].streak_count
              bonus == users_db'[u].balance - users_db[u].balance
          IN  users_db'[u] # users_db[u] =>
                /\ c >= 1
                /\ bonus = IF 500 + 100 * (c - 1) < 1100
                           THEN 500 + 100 * (c - 1) ELSE 1100
                /\ c = 1 => bonus = 500
                /\ c >= 7 => bonus = 1100
                /\ bonus >= 500 /\ bonus <= 1100 ]_vars

\* A user has been paid for day 9 of a streak: 1100, after 500, 600, 700, 800,
\* 900 and 1000 for days 1 to 6 and 1100 for days 7 and 8.
C19_Witness ==
    /\ handler.pc = "idle"
    /\ users_db["u1"].streak_count = 9
    /\ users_db["u1"].streak_last_login = clock.day
    /\ users_db["u1"].balance = StartingBalance + 6700 + 1100

\* C20: the streak logic of a session start on day d, for a user whose last
\* login on record is not d, sets the count to the previous one plus 1 if the
\* last login is d - 1 and to 1 otherwise, and the last login to d; for a user
\* whose last login is d it leaves count, last login and balance as they were.
C20_StreakCountRule ==
    [][ StartStreak =>
          LET u == handler.user
              pre == users_db[u]
              post == users_db'[u]
              d == clock.day
          IN  /\ pre.streak_last_login # d =>
                    /\ post.streak_count =
                           IF pre.streak_last_login # NoDate
                              /\ pre.streak_last_login = d - 1
                           THEN pre.streak_count + 1 ELSE 1
                    /\ post.streak_last_login = d
              /\ pre.streak_last_login = d =>
                    /\ post.streak_count = pre.streak_count
                    /\ post.streak_last_login = pre.streak_last_login
                    /\ post.balance = pre.balance ]_vars

\* A user whose streak of 5 days ended two days ago has started a session: the
\* count is back at 1, for a bonus of 500.
C20_Witness ==
    /\ handler.pc = "idle"
    /\ users_db["u1"].streak_count = 1
    /\ users_db["u1"].streak_last_login = clock.day
    /\ users_db["u1"].balance = StartingBalance + 3500 + 500

\* The record of u before the step; the one get_user makes, for a new id.
Before(u) == IF u \in Known THEN users_db[u] ELSE NewUser

\* The places in Appended of the transactions of u.
AppendedFor(u) == { i \in 1..Len(Appended) : Appended[i].user_id = u }

\* C21: a step that changes a user's balance or withdrawable_profit appends
\* exactly one transaction for that user, for the amount of the change (a
\* withdrawal for the amount taken), a streak_bonus for a streak bonus and a
\* referral_bonus for a referral bonus.
C21_EveryChangeLogged ==
    [][ \A u \in DOMAIN users_db' :
          LET change == (users_db'[u].balance - Before(u).balance)
                        + (users_db'[u].withdrawable_profit
                              - Before(u).withdrawable_profit)
          IN  ( \/ users_db'[u].balance # Before(u).balance
                \/ users_db'[u].withdrawable_profit
                       # Before(u).withdrawable_profit )
                => /\ Cardinality(AppendedFor(u)) = 1
                   /\ \A i \in AppendedFor(u) :
                         /\ Appended[i].amount =
                                IF Appended[i].type = "withdrawal"
                                THEN 0 - change ELSE change
                         /\ StartStreak => Appended[i].type = "streak_bonus"
                         /\ (handler.pc = "idle" /\ handler'.pc = "start")
                               => Appended[i].type = "referral_bonus" ]_vars

\* C22: every step leaves the transactions of the log in place, in their
\* order and with their fields, and every transaction has status "completed".
C22_LogOnlyGrows ==
    /\ [] (\A i \in 1..Len(transactions_db) :
              transactions_db[i].status = "completed")
    /\ [][ /\ Len(transactions_db') >= Len(transactions_db)
           /\ SubSeq(transactions_db', 1, Len(transactions_db))
                  = transactions_db ]_vars

\* The log holds a verification credit, then a profit, then a withdrawal.
C22_Witness ==
    \E i, j, k \in 1..Len(transactions_db) :
        /\ i < j /\ j < k
        /\ transactions_db[i].type = "verification_credit"
        /\ transactions_db[j].type = "profit"
        /\ transactions_db[k].type = "withdrawal"

\* C24: a session start that applied a referral and then ended, its
\* notification failing or not, has applied its streak update: the user's last
\* login on record is today.
C24_StartEndsWithStreak ==
    [][ (handler.pc = "start" /\ handler.applied /\ handler'.pc = "idle")
          => users_db'[handler.user].streak_last_login = clock.day ]_vars

\* C26: a step that turns a user's trading_active from false to true leaves
\* the user's trading_capital at 5000 + 5000 * referrals.
C26_CapitalRecomputedOnActivation ==
    [][ \A u \in DOMAIN users_db' :
          (~Before(u).trading_active /\ users_db'[u].trading_active)
              => users_db'[u].trading_capital
                     = 5000 + 5000 * users_db'[u].referrals ]_vars

\* A user with 6 referrals and 19 ads watched, on a capital of 30000, has
\* watched one more ad: trading is on, on a capital of 35000.
C26_Witness ==
    \E u \in Known :
        /\ users_db[u].referrals = 6
        /\ users_db[u].ads_watched = 20
        /\ users_db[u].trading_active
        /\ users_db[u].trading_capital = 35000
        /\ started = 1
        /\ handler.pc = "idle"
        /\ accrual.pc = "idle"
        /\ \A v \in Known \ {u} : users_db[v].ads_watched = 19

RECURSIVE Sum(_, _, _)
\* The sum of the amounts of u's transactions of the types `types` in log.
Sum(log, u, types) ==
    IF log = << >> THEN 0
    ELSE (IF Head(log).user_id = u /\ Head(log).type \in types
          THEN Head(log).amount ELSE 0) + Sum(Tail(log), u, types)

\* C28: in every state each user's withdrawable_profit is the sum of the
\* user's profit and verification_credit transactions less the sum of the
\* user's withdrawal transactions.
C28_ProfitLedgerBalances ==
    \A u \in Known :
        users_db[u].withdrawable_profit
            = Sum(transactions_db, u, {"profit", "verification_credit"})
              - Sum(transactions_db, u, {"withdrawal"})

\* A tick credited a user while the sweep that had listed the user waited; the
\* sweep has then paid the user out, credit included.
C28_Witness ==
    /\ SweepOver
    /\ \E u \in Range(sweep.eligible) :
          /\ \E i \in SweptTx(u) : transactions_db[i].amount > sweep.snap[u]
          /\ users_db[u].withdrawable_profit = 0

\* C29: every withdrawal in the log is for at least 5000 and for a user who
\* is verified.
C29_WithdrawalsAtLeastMinimum ==
    \A i \in 1..Len(transactions_db) :
        transactions_db[i].type = "withdrawal"
            => /\ transactions_db[i].amount >= 5000
               /\ users_db[transactions_db[i].user_id].verified

\* A sweep has ended, and a second one has not started: the log holds the
\* withdrawals of one sweep.
C29_Witness ==
    /\ sweep.pc = "idle"
    /\ Len(payments_db) = 1
    /\ payments_db[1].completed
    /\ Cardinality({ i \in 1..Len(transactions_db) :
                       transactions_db[i].type = "withdrawal" }) = TargetUsers

\* The capital of a user who was activated.
Activated(user) == user.trading_capital = 5000 + 5000 * user.referrals

\* C30: in every state a user's trading_capital is 5000 * referrals or
\* 5000 + 5000 * referrals, and at most 35000; a user on the second has it
\* from a step that activated the user, or had it before the step.
C30_CapitalForms ==
    /\ [] (\A u \in Known :
             /\ \/ users_db[u].trading_capital = 5000 * users_db[u].referrals
                \/ Activated(users_db[u])
             /\ users_db[u].trading_capital <= 35000)
    /\ [][ \A u \in DOMAIN users_db' :
             Activated(users_db'[u])
                 => \/ Activated(Before(u))
                    \/ ~Before(u).trading_active /\ users_db'[u].trading_active
         ]_vars

\* An activated user after the daily reset: trading off, no ads watched, the
\* capital still 35000.
C30_Witness ==
    \E u \in Known :
        /\ users_db[u].trading_capital = 35000
        /\ users_db[u].referrals = 6
        /\ ~users_db[u].trading_active
        /\ users_db[u].ads_watched = 0

\* C23: a sweep that met the threshold ends only after every user of its list
\* has been paid out, whichever sends raised: each step of its loop sets the
\* user's withdrawable_profit to 0 and appends the user's withdrawal, and when
\* it ends the log holds one withdrawal of the sweep for each listed user.
C23_FailedSendKeepsSweepGoing ==
    [][ /\ (sweep.pc = "run" /\ sweep'.pc = "idle")
              => \A u \in Range(sweep.eligible) : Cardinality(SweptTx(u)) = 1
        /\ (sweep'.pc = "run" /\ sweep' # sweep)
              => LET u == sweep'.eligible[Len(sweep'.eligible) - Len(sweep'.todo)]
                 IN  /\ users_db'[u].withdrawable_profit = 0
                     /\ Len(Appended) = 1
                     /\ Appended[1].user_id = u
                     /\ Appended[1].type = "withdrawal" ]_vars

\* The send for the first user of the list raised, and the second user has
\* been paid out all the same.
C23_Witness ==
    /\ SweepOver
    /\ Len(sweep.eligible) = 2
    /\ sweep.failed = {sweep.eligible[1]}
    /\ users_db[sweep.eligible[2]].withdrawable_profit = 0
    /\ Cardinality(SweptTx(sweep.eligible[2])) = 1

\* The band of hour h as spec.md 4.1 gives it, in percent.
BandOfHour(h) ==
    IF h <= 7 THEN << 35, 50 >> ELSE IF h <= 16 THEN << 21, 34 >> ELSE << 20, 20 >>

\* C25: at every hour 0..23 exactly one band of ProfitTimeRange applies; a
\* step of the accrual tick passes only users that are not active, and the
\* active user it reaches gets withdrawable_profit raised by trading_capital
\* times a rate of the hour's band (20% from 17 to 23), never by 0, and one
\* profit transaction of that amount.
C25_OneBandPerHour ==
    /\ [] ( /\ Hour \in 0..23
            /\ Cardinality({ i \in 1..Len(ProfitTimeRange) :
                               /\ ProfitTimeRange[i][1] <= Hour
                               /\ Hour <= ProfitTimeRange[i][2] }) = 1 )
    /\ [][ (accrual' # accrual) =>
             LET last == IF accrual'.pc = "run" THEN accrual'.pos
                         ELSE Len(order) + 1
             IN  /\ \A i \in (accrual.pos + 1)..(last - 1) :
                        ~users_db[order[i]].trading_active
                 /\ accrual'.pc = "run" =>
                      LET u == order[last]
                          gain == users_db'[u].withdrawable_profit
                                     - users_db[u].withdrawable_profit
                          capital == users_db[u].trading_capital
                      IN  /\ users_db[u].trading_active
                          /\ gain > 0
                          /\ 100 * gain >= BandOfHour(Hour)[1] * capital
                          /\ 100 * gain <= BandOfHour(Hour)[2] * capital
                          /\ Hour >= 17 => 100 * gain = 20 * capital
                          /\ Len(Appended) = 1
                          /\ Appended[1].user_id = u
                          /\ Appended[1].type = "profit"
                          /\ Appended[1].amount = gain ]_vars

\* At 8 o'clock a tick has credited the first user 21% of 35000.
C25_Witness ==
    /\ accrual.pc = "run"
    /\ accrual.pos = 1
    /\ Hour = 8
    /\ users_db["u1"].withdrawable_profit = 7350
    /\ Len(transactions_db) = 1

\* The session start of the step carries a referral that is counted: the
\* referrer is known, is not the user, is eligible and has fewer than 6.
CountedReplay ==
    /\ handler.pc = "idle"
    /\ handler'.pc = "start"
    /\ handler'.arg \in Known
    /\ handler'.arg # handler'.user
    /\ users_db[handler'.arg].referral_bonus_eligible
    /\ users_db[handler'.arg].referrals < 6

\* C27: each session start of X with the referral of R, whether or not X has
\* used it before, is counted while R is eligible with fewer than 6
\* referrals: referrals goes up by 1, balance and trading_capital by 5000; at
\* 6 referrals nothing is counted any more.
C27_EveryReplayCounts ==
    [][ /\ CountedReplay =>
             LET r == handler'.arg
             IN  /\ users_db'[r].referrals = users_db[r].referrals + 1
                 /\ users_db'[r].balance = users_db[r].balance + 5000
                 /\ users_db'[r].trading_capital
                        = users_db[r].trading_capital + 5000
        /\ ( /\ handler.pc = "idle" /\ handler'.pc = "start"
             /\ handler'.arg \in Known
             /\ users_db[handler'.arg].referrals = 6 )
             => users_db'[handler'.arg] = users_db[handler'.arg] ]_vars

\* C27 as amended: the same, but the replay that brings the count to 6 for a
\* referrer with 20 ads watched sets trading_capital to 35000.
C27_EveryReplayCountsUpToGate ==
    [][ /\ CountedReplay =>
             LET r == handler'.arg
             IN  /\ users_db'[r].referrals = users_db[r].referrals + 1
                 /\ users_db'[r].balance = users_db[r].balance + 5000
                 /\ users_db'[r].trading_capital
                        = IF users_db'[r].referrals = 6
                             /\ users_db[r].ads_watched >= 20
                          THEN 35000
                          ELSE users_db[r].trading_capital + 5000
        /\ ( /\ handler.pc = "idle" /\ handler'.pc = "start"
             /\ handler'.arg \in Known
             /\ users_db[handler'.arg].referrals = 6 )
             => users_db'[handler'.arg] = users_db[handler'.arg] ]_vars

\* u2 has started two sessions with the referral of u1, who had none: both
\* were counted.
C27_Witness ==
    /\ started = 2
    /\ handler.pc = "start"
    /\ handler.user = "u2"
    /\ handler.arg = "u1"
    /\ handler.applied
    /\ users_db["u1"].referrals = 2
    /\ users_db["u1"].balance = StartingBalance + 10000
    /\ users_db["u1"].trading_capital = 10000

\* C31: when a profit-accrual tick ends, whatever session starts ran while it
\* waited, it has gone through the whole table: no user after the one it
\* credited last is active.
C31_TickRunsToTheEnd ==
    [][ (accrual.pc = "run" /\ accrual'.pc = "idle")
          => \A i \in (accrual.pos + 1)..Len(order) :
                ~users_db[order[i]].trading_active ]_vars

\* C32: a run of the daily reset leaves the table with the users it had, each
\* user's record as it was but for ads_watched, trading_active and
\* game_attempts, and the log and the batches as they were.
C32_ResetTouchesThreeFields ==
    [][ (reset_job'.runs_today # reset_job.runs_today /\ ResetDailyLimits)
          => /\ DOMAIN users_db' = DOMAIN users_db
             /\ \A u \in Known :
                   [users_db'[u] EXCEPT
                       !.ads_watched = users_db[u].ads_watched,
                       !.trading_active = users_db[u].trading_active,
                       !.game_attempts = users_db[u].game_attempts]
                     = users_db[u]
             /\ transactions_db' = transactions_db
             /\ payments_db' = payments_db ]_vars

\* The reset has run in hour 0 on two verified traders with profit on their
\* accounts: trading is off and no ad is counted, the profit, the capital and
\* the log of four transactions are there.
C32_Witness ==
    /\ reset_job.runs_today = 1
    /\ Hour = 0
    /\ Len(transactions_db) = 4
    /\ accrual.pc = "idle"
    /\ \A u \in Known :
          /\ users_db[u].verified
          /\ users_db[u].withdrawable_profit > VerificationCredit
          /\ users_db[u].trading_capital = 35000
          /\ users_db[u].ads_watched = 0
          /\ ~users_db[u].trading_active

============================================================================
